---- MODULE Spec2Model ----
(***************************************************************************)
(* Model of agent.py: the host-resident job and session agent.  One       *)
(* invocation of main() synchronises the script inventory, dequeues and   *)
(* runs at most one pending job, and starts at most one pending Jupyter   *)
(* session.  The remote queue (jobs, scripts, jupyter_sessions tables),   *)
(* the per-job log files and two agents invoked by an external scheduler  *)
(* (which may overlap) are the state.                                     *)
(***************************************************************************)
EXTENDS Integers, Sequences, FiniteSets, TLC

(***************************************************************************)
(* Bounds of the model.                                                    *)
(***************************************************************************)
MaxJobs == 2        \* job records the enqueuer may create
MaxSessions == 2    \* session records the enqueuer may create
MaxRuns == 2        \* invocations of main() the scheduler starts
MaxPathLen == 2     \* components of a script path handed to the resolver
MaxArgs == 2        \* entries of an args payload handed to format_args
MaxUid == 210       \* largest numeric user identity handed to the port formula
HostUid == 1001     \* os.getuid() of the account the agents run under

(***************************************************************************)
(* Nullable values: None is the empty tuple, a value v is <<v>>.           *)
(***************************************************************************)
None == <<>>
Some(v) == <<v>>

(***************************************************************************)
(* Module constants of agent.py and the host's file system.  HOME is its    *)
(* own canonical form: no component of it is a symbolic link.              *)
(***************************************************************************)
HOME == <<"home", "u">>
ALLOWED_SUFFIXES == {".py", ".ipynb"}
SKIP_DIRS == {".venv", ".cache", ".local", "anaconda3", "__pycache__", ".git"}
DEFAULT_JUPYTER_BASE_PORT == 8800
NumLines == 20

\* File and directory names that occur in script paths.
Names == {"a.py", "n.ipynb", "t.txt", "gone.py", "ln.py", "d", ".venv", "out", ".."}

\* Regular files of the host, as absolute component lists.
Files == { <<"home", "u", "a.py">>,
           <<"home", "u", "n.ipynb">>,
           <<"home", "u", "t.txt">>,
           <<"home", "u", "d", "a.py">>,
           <<"home", "u", ".venv", "a.py">>,
           <<"etc", "a.py">> }

\* Directories: every proper prefix of a file.
Dirs == UNION { { SubSeq(f, 1, n) : n \in 0..(Len(f) - 1) } : f \in Files }

\* Symbolic links: link location -> canonical target.
SymlinkAt == { <<"home", "u", "out">>, <<"home", "u", "ln.py">> }
SymlinkTarget(p) ==
    IF p = <<"home", "u", "out">> THEN <<"etc">> ELSE <<"home", "u", "n.ipynb">>

\* PurePath.suffix of a final component: the text from the last dot on,
\* empty for a name without a dot or with only a leading dot.
Suffix(name) ==
    CASE name \in {"a.py", "gone.py", "ln.py"} -> ".py"
      [] name = "n.ipynb" -> ".ipynb"
      [] name = "t.txt" -> ".txt"
      [] OTHER -> ""

\* str.lstrip(".") on a suffix.
LStripDot(s) ==
    CASE s = ".py" -> "py"
      [] s = ".ipynb" -> "ipynb"
      [] s = ".txt" -> "txt"
      [] OTHER -> s

\* A script path string: whether it starts at the root, and its components.
\* The empty string is [abs |-> FALSE, parts |-> <<>>].
MkPath(abs, parts) == [abs |-> abs, parts |-> parts]
EmptyPath == MkPath(FALSE, <<>>)

PathSuffix(parts) == IF parts = <<>> THEN "" ELSE Suffix(parts[Len(parts)])

IsPrefix(p, q) == Len(p) <= Len(q) /\ SubSeq(q, 1, Len(p)) = p

\* Path.resolve(): walk the components from the root, ".." drops the last
\* resolved component, a symbolic link is replaced by its target, a missing
\* component is kept as written.
RECURSIVE Resolve(_, _)
Resolve(cur, rest) ==
    IF rest = <<>> THEN cur
    ELSE LET c == Head(rest)
             nxt == Append(cur, c)
         IN  IF c = ".."
             THEN Resolve(IF cur = <<>> THEN cur ELSE SubSeq(cur, 1, Len(cur) - 1),
                          Tail(rest))
             ELSE IF nxt \in SymlinkAt
             THEN Resolve(SymlinkTarget(nxt), Tail(rest))
             ELSE Resolve(nxt, Tail(rest))

Exists(p) == p \in Files \/ p \in Dirs

\* should_skip(path)
should_skip(parts) == \E i \in 1..Len(parts) : parts[i] \in SKIP_DIRS

Accept(resolved) == [ok |-> TRUE, reason |-> "", path |-> resolved]
Reject(reason) == [ok |-> FALSE, reason |-> reason, path |-> <<>>]

R_ABS == "script_path must be relative to the home directory"
R_HOME == "script_path must stay under the home directory"
R_SUFFIX == "Only .py or .ipynb scripts are allowed"
R_TYPE == "Script type mismatch"
R_MISSING == "Script not found"
R_SKIP == "Script is under skipped directory"

\* Mutant of ensure_allowed_script: the containment check on the joined
\* path as written, without resolving ".." and symbolic links first.
ensure_allowed_script_unresolved(script_path, expected_type) ==
    LET joined == HOME \o script_path.parts
        resolved == Resolve(HOME, script_path.parts)
    IN  IF script_path.abs THEN Reject(R_ABS)
        ELSE IF ~IsPrefix(HOME, joined) THEN Reject(R_HOME)
        ELSE IF PathSuffix(resolved) \notin ALLOWED_SUFFIXES THEN Reject(R_SUFFIX)
        ELSE IF expected_type /= "" /\ LStripDot(PathSuffix(resolved)) /= expected_type
             THEN Reject(R_TYPE)
        ELSE IF ~Exists(resolved) THEN Reject(R_MISSING)
        ELSE IF should_skip(resolved) THEN Reject(R_SKIP)
        ELSE Accept(resolved)

\* ensure_allowed_script(script_path, expected_type)
ensure_allowed_script(script_path, expected_type) ==
    LET resolved == Resolve(HOME, script_path.parts)
    IN  IF script_path.abs THEN Reject(R_ABS)
        ELSE IF ~IsPrefix(HOME, resolved) THEN Reject(R_HOME)
        ELSE IF PathSuffix(resolved) \notin ALLOWED_SUFFIXES THEN Reject(R_SUFFIX)
        ELSE IF expected_type /= "" /\ LStripDot(PathSuffix(resolved)) /= expected_type
             THEN Reject(R_TYPE)
        ELSE IF ~Exists(resolved) THEN Reject(R_MISSING)
        ELSE IF should_skip(resolved) THEN Reject(R_SKIP)
        ELSE Accept(resolved)

(***************************************************************************)
(* Job arguments and format_args.                                          *)
(***************************************************************************)
\* JSON scalars of an args payload.
SStr(s) == [k |-> "str", s |-> s]
SInt(s) == [k |-> "int", s |-> s]
STrue == [k |-> "bool", s |-> "True"]
SFalse == [k |-> "bool", s |-> "False"]
SNull == [k |-> "null", s |-> "None"]

\* str(item): the text of a scalar (an integer is carried by its digits).
Str(x) == x.s

ArgsNone == [tag |-> "none", items |-> <<>>]
ArgsList(items) == [tag |-> "list", items |-> items]
ArgsDict(pairs) == [tag |-> "dict", items |-> pairs]

RECURSIVE DictArgs(_)
DictArgs(pairs) ==
    IF pairs = <<>> THEN <<>>
    ELSE LET key == Head(pairs)[1]
             value == Head(pairs)[2]
         IN  <<"--" \o key>>
             \o (IF value.k /= "null" THEN <<Str(value)>> ELSE <<>>)
             \o DictArgs(Tail(pairs))

\* A string payload is carried by its characters, a bare scalar by itself.
ArgsStr(chars) == [tag |-> "str", items |-> chars]
ArgsScalar(x) == [tag |-> "scalar", items |-> <<x>>]

\* shlex.split on a string of word characters and blanks (no quote or escape
\* character occurs in it): the maximal runs of non-blank characters.
RECURSIVE ShlexSplit(_, _)
ShlexSplit(chars, word) ==
    IF chars = <<>> THEN (IF word = "" THEN <<>> ELSE <<word>>)
    ELSE IF Head(chars) = " "
    THEN (IF word = "" THEN <<>> ELSE <<word>>) \o ShlexSplit(Tail(chars), "")
    ELSE ShlexSplit(Tail(chars), word \o Head(chars))

\* format_args(raw_args)
format_args(raw_args) ==
    CASE raw_args.tag = "none" -> <<>>
      [] raw_args.tag = "list" -> [i \in 1..Len(raw_args.items) |-> Str(raw_args.items[i])]
      [] raw_args.tag = "dict" -> DictArgs(raw_args.items)
      [] raw_args.tag = "str" -> ShlexSplit(raw_args.items, "")
      [] raw_args.tag = "scalar" -> <<Str(raw_args.items[1])>>

(***************************************************************************)
(* The queue store.                                                        *)
(***************************************************************************)
Agents == {"a1", "a2"}
JobIds == 1..MaxJobs
SessIds == 1..MaxSessions
ME == "me"
OTHER_USER == "other"

\* Rows of the scripts table by identifier: one per discoverable file of
\* this user, and s4, a row of another user.
ScriptRow(id) ==
    CASE id = "s1" -> [user |-> ME, path |-> MkPath(FALSE, <<"a.py">>), type |-> "py"]
      [] id = "s2" -> [user |-> ME, path |-> MkPath(FALSE, <<"n.ipynb">>), type |-> "ipynb"]
      [] id = "s3" -> [user |-> ME, path |-> MkPath(FALSE, <<"d", "a.py">>), type |-> "py"]
      [] id = "s4" -> [user |-> OTHER_USER, path |-> MkPath(FALSE, <<"a.py">>), type |-> "py"]
      [] id = "s5" -> [user |-> ME, path |-> MkPath(FALSE, <<"ln.py">>), type |-> "py"]
ScriptIds == {"s1", "s2", "s3", "s4", "s5"}

\* What the enqueuer may put in a job record.
JobTemplates ==
    { [owner |-> ME, script_id |-> Some("s1"), script_path |-> EmptyPath,
       args |-> ArgsList(<<SStr("x")>>)],
      [owner |-> ME, script_id |-> Some("s2"), script_path |-> EmptyPath,
       args |-> ArgsList(<<SStr("x")>>)],
      [owner |-> ME, script_id |-> Some("s9"), script_path |-> MkPath(FALSE, <<"a.py">>),
       args |-> ArgsNone],
      [owner |-> ME, script_id |-> None, script_path |-> EmptyPath, args |-> ArgsNone],
      [owner |-> ME, script_id |-> None, script_path |-> MkPath(FALSE, <<"out", "a.py">>),
       args |-> ArgsNone],
      [owner |-> OTHER_USER, script_id |-> None, script_path |-> MkPath(FALSE, <<"a.py">>),
       args |-> ArgsNone] }

NoTemplate == [owner |-> "", script_id |-> None, script_path |-> EmptyPath, args |-> ArgsNone]

\* Fields of a job record the agent writes.
JobResultFields ==
    {"status", "started_at", "finished_at", "retcode",
     "stdout_path", "stderr_path", "stdout_tail", "stderr_tail"}

AbsentJob ==
    [status |-> "absent", created |-> 0, tmpl |-> NoTemplate,
     started_at |-> None, finished_at |-> None, retcode |-> None,
     stdout_path |-> None, stderr_path |-> None,
     stdout_tail |-> None, stderr_tail |-> None]

AbsentSession ==
    [status |-> "absent", created |-> 0, owner |-> "",
     port |-> None, token |-> None, pid |-> None,
     error_message |-> None, updated_at |-> None]

\* An update's payload overwrites the fields it names and no other.
ApplyPayload(rec, payload) ==
    [f \in DOMAIN rec |-> IF f \in DOMAIN payload THEN payload[f] ELSE rec[f]]

\* The identifier columns a table exposes under each schema.
Schemas == {"id", "named", "both"}
IdColumns(schema, named) ==
    CASE schema = "id" -> {"id"}
      [] schema = "named" -> {named}
      [] schema = "both" -> {"id", named}

NoFile == None
NoLogs == [out |-> NoFile, err |-> NoFile]

VARIABLES
    schema,     \* which identifier columns the tables expose
    jobs,       \* jobs table: JobIds -> record
    scripts,    \* scripts table: identifiers of the rows present
    sessions,   \* jupyter_sessions table: SessIds -> record
    logs,       \* LOG_ROOT/<job_id>/stdout.log and stderr.log
    runs,       \* invocations of main() started so far
    ag,         \* per agent: position in main() and its locals
    probe       \* input and result of a stand-alone resolver call

vars == <<schema, jobs, scripts, sessions, logs, runs, ag, probe>>

\* An event of one invocation, in program order.
Ev(op, st, rc, msg, att, keys) ==
    [op |-> op, st |-> st, rc |-> rc, msg |-> msg, att |-> att, keys |-> keys]

Last(q) == q[Len(q)]
Range(q) == { q[i] : i \in 1..Len(q) }

IdleAgent ==
    [pc |-> "idle", job |-> 0, sess |-> 0, run |-> 0, exit |-> "",
     stages |-> <<>>, log |-> <<>>]

NoProbe == [path |-> EmptyPath, type |-> "", done |-> FALSE, result |-> Reject("")]

Init ==
    /\ schema \in Schemas
    /\ jobs = [j \in JobIds |-> AbsentJob]
    /\ scripts = ScriptIds
    /\ sessions = [s \in SessIds |-> AbsentSession]
    /\ logs = [j \in JobIds |-> NoLogs]
    /\ runs = 0
    /\ ag = [a \in Agents |-> IdleAgent]
    /\ probe = NoProbe

(***************************************************************************)
(* Queue calls.  A call on a column the table does not expose raises, a    *)
(* call on a column it exposes raises when the request fails (fails[k])    *)
(* and is applied to the record with that identifier otherwise.  When a    *)
(* table exposes both columns they carry the same identifier.              *)
(***************************************************************************)
Attempt(col, ok) == [col |-> col, ok |-> ok]

\* The loop of update_job / update_session over its two candidate columns.
UpdateByColumns(columns, tableCols, fails) ==
    LET ok1 == columns[1] \in tableCols /\ ~fails[1]
        ok2 == columns[2] \in tableCols /\ ~fails[2]
    IN  IF ok1
        THEN [att |-> <<Attempt(columns[1], TRUE)>>, applied |-> TRUE, raised |-> FALSE]
        ELSE IF ok2
        THEN [att |-> <<Attempt(columns[1], FALSE), Attempt(columns[2], TRUE)>>,
              applied |-> TRUE, raised |-> FALSE]
        ELSE [att |-> <<Attempt(columns[1], FALSE), Attempt(columns[2], FALSE)>>,
              applied |-> FALSE, raised |-> TRUE]

\* Mutant of JobColumns: the two candidate columns in the opposite order.
JobColumnsSwapped(use_job_id) ==
    IF use_job_id THEN <<"id", "job_id">> ELSE <<"job_id", "id">>

\* update_job, line 221
JobColumns(use_job_id) == IF use_job_id THEN <<"job_id", "id">> ELSE <<"id", "job_id">>

\* update_job(client, job_id, payload, use_job_id)
update_job(use_job_id, tableCols, fails) ==
    UpdateByColumns(JobColumns(use_job_id), tableCols, fails)

SessionColumns(use_session_id) ==
    IF use_session_id THEN <<"session_id", "id">> ELSE <<"id", "session_id">>

\* update_session(client, session_id, payload, use_session_id)
update_session(use_session_id, tableCols, fails) ==
    UpdateByColumns(SessionColumns(use_session_id), tableCols, fails)

\* fetch_script(client, script_id, user_id): the first of the keys
\* script_id, id whose select neither raises nor comes back empty.
fetch_script(script_id, user_id, table, tableCols, fails) ==
    LET hit == script_id \in table /\ ScriptRow(script_id).user = user_id
        ok1 == "script_id" \in tableCols /\ ~fails[1]
        ok2 == "id" \in tableCols /\ ~fails[2]
    IN  IF hit /\ (ok1 \/ ok2) THEN Some(script_id) ELSE None

Pending(table, user_id) ==
    { j \in DOMAIN table : table[j].status = "pending" /\ table[j].owner = user_id }

\* Mutant of fetch_next_job: ordered by created_at descending.
fetch_newest_job(table, user_id) ==
    LET rows == { j \in DOMAIN table :
                    table[j].status = "pending" /\ table[j].tmpl.owner = user_id }
    IN  IF rows = {} THEN 0
        ELSE CHOOSE j \in rows : \A k \in rows : table[j].created >= table[k].created

\* fetch_next_job(client, user_id): order by created_at ascending, limit 1.
fetch_next_job(table, user_id) ==
    LET rows == { j \in DOMAIN table :
                    table[j].status = "pending" /\ table[j].tmpl.owner = user_id }
    IN  IF rows = {} THEN 0
        ELSE CHOOSE j \in rows : \A k \in rows : table[j].created <= table[k].created

\* Mutant of fetch_pending_session: ordered by created_at ascending.
fetch_oldest_session(table, user_id) ==
    LET rows == Pending(table, user_id)
    IN  IF rows = {} THEN 0
        ELSE CHOOSE s \in rows : \A k \in rows : table[s].created <= table[k].created

\* fetch_pending_session(client, user_id): order by created_at descending, limit 1.
fetch_pending_session(table, user_id) ==
    LET rows == Pending(table, user_id)
    IN  IF rows = {} THEN 0
        ELSE CHOOSE s \in rows : \A k \in rows : table[s].created >= table[k].created

\* discover_scripts(user_id): the *.py and *.ipynb files under HOME that are
\* not below a skipped directory, as inventory rows.
discover_scripts(user_id) ==
    { [user |-> user_id,
       path |-> MkPath(FALSE, SubSeq(f, Len(HOME) + 1, Len(f))),
       type |-> LStripDot(PathSuffix(f))] :
      f \in { g \in Files \cup { l \in SymlinkAt : SymlinkTarget(l) \in Files } :
                /\ PathSuffix(g) \in {".py", ".ipynb"}
                /\ ~should_skip(g)
                /\ IsPrefix(HOME, g) } }

\* sync_scripts(client, user_id, scripts): delete the user's rows, insert anew.
sync_scripts(table, user_id, outcome) ==
    LET others == { id \in table : ScriptRow(id).user /= user_id }
        fresh == { id \in ScriptIds : ScriptRow(id) \in discover_scripts(user_id) }
    IN  CASE outcome = "ok" -> others \cup fresh
          [] outcome = "insert_failed" -> others
          [] OTHER -> table

\* get_tail(path, num_lines=20)
get_tail(file) ==
    IF file = NoFile THEN None
    ELSE LET lines == file[1]
         IN  IF Len(lines) <= NumLines THEN Some(lines)
             ELSE Some(SubSeq(lines, Len(lines) - NumLines + 1, Len(lines)))

\* build_nbconvert_command(script_full, output_nb)
build_nbconvert_command(script_full) ==
    [prog |-> <<"jupyter", "nbconvert", "--to", "notebook", "--execute">>,
     script |-> script_full, args |-> <<>>,
     tail |-> <<"--output", "output.ipynb", "--output-dir">>]

PythonCommand(script_full, args) ==
    [prog |-> <<"python">>, script |-> script_full, args |-> args, tail |-> <<>>]

\* What a started child may do: its exit code and what it prints.
ChildRuns ==
    { [rc |-> 0, out |-> <<"out">>, err |-> <<>>],
      [rc |-> 2, out |-> <<>>, err |-> <<"trace">>] }

WARN_ARGS == "Args are ignored for ipynb jobs."
FAILED_START == "Failed to start job"
Stamp == Some("utc")
Flags == BOOLEAN \X BOOLEAN

(***************************************************************************)
(* The enqueuer (external): creates records in status pending.             *)
(***************************************************************************)
Present(table) == { k \in DOMAIN table : table[k].status /= "absent" }

Enqueue(j, t) ==
    /\ jobs[j].status = "absent"
    /\ \A k \in JobIds : k < j => jobs[k].status /= "absent"
    /\ jobs' = [jobs EXCEPT ![j] = [AbsentJob EXCEPT !.status = "pending",
                                       !.created = Cardinality(Present(jobs)) + 1,
                                       !.tmpl = t]]
    /\ UNCHANGED <<schema, scripts, sessions, logs, runs, ag, probe>>

EnqueueSession(s, owner) ==
    /\ sessions[s].status = "absent"
    /\ \A k \in SessIds : k < s => sessions[k].status /= "absent"
    /\ sessions' = [sessions EXCEPT ![s] =
                       [AbsentSession EXCEPT !.status = "pending",
                                             !.created = Cardinality(Present(sessions)) + 1,
                                             !.owner = owner]]
    /\ UNCHANGED <<schema, jobs, scripts, logs, runs, ag, probe>>

(***************************************************************************)
(* main()                                                                  *)
(***************************************************************************)

\* main(), lines 528-545: configuration, client, user identity.  Any of
\* them failing returns 1 before the queue is touched.  The agents are
\* interchangeable; a1 names the one the scheduler starts first.
Start(a) ==
    /\ ag[a].pc = "idle"
    /\ runs < MaxRuns
    /\ a = "a1" \/ runs > 0
    /\ runs' = runs + 1
    /\ \E boot \in {"ok", "failed"} :
         ag' = [ag EXCEPT ![a] =
                  IF boot = "ok"
                  THEN [IdleAgent EXCEPT !.pc = "sync", !.run = runs + 1,
                                         !.stages = <<"boot">>]
                  ELSE [IdleAgent EXCEPT !.exit = "1"]]
    /\ UNCHANGED <<schema, jobs, scripts, sessions, logs, probe>>

\* main(), lines 547-558: inventory sync, every exception caught and logged.
Sync(a) ==
    /\ ag[a].pc = "sync"
    /\ \E outcome \in {"skipped", "ok", "delete_failed", "insert_failed"} :
         /\ scripts' = sync_scripts(scripts, ME, outcome)
         /\ ag' = [ag EXCEPT ![a].pc = "fetch", ![a].stages = Append(@, "sync")]
    /\ UNCHANGED <<schema, jobs, sessions, logs, runs, probe>>

\* main(), lines 560-569: fetch the next job; a failed fetch returns 1.
FetchJob(a) ==
    /\ ag[a].pc = "fetch"
    /\ \E failed \in BOOLEAN :
         LET j == fetch_next_job(jobs, ME)
         IN  ag' = [ag EXCEPT ![a] =
                  IF failed
                  THEN [@ EXCEPT !.pc = "idle", !.exit = "1", !.run = 0,
                                 !.stages = Append(@, "jobs")]
                  ELSE IF j = 0
                  THEN [@ EXCEPT !.pc = "sess", !.stages = Append(@, "jobs")]
                  ELSE [@ EXCEPT !.pc = "resolve", !.job = j,
                                 !.stages = Append(@, "jobs")]]
    /\ UNCHANGED <<schema, jobs, scripts, sessions, logs, runs, probe>>

(***************************************************************************)
(* run_job                                                                 *)
(***************************************************************************)
UpdateEvent(op, payload, upd) ==
    Ev(op, payload.status,
       IF "retcode" \in DOMAIN payload THEN payload.retcode ELSE None,
       IF upd.applied THEN "applied" ELSE "raised", upd.att, DOMAIN payload)

\* send_email(config, job, status, retcode, stdout_path, stderr_path, error_message)
send_email(status, retcode, error_message) ==
    Ev("send_email", status, retcode, error_message, <<>>, {})

\* Mutant of JobUpdate: the update that sets running is a claim, applied
\* only to a record that is still pending.
JobUpdateIfPending(a, j, payload, upd, pre, post, nextpc) ==
    /\ jobs' = IF upd.applied /\ (payload.status /= "running" \/ jobs[j].status = "pending")
               THEN [jobs EXCEPT ![j] = ApplyPayload(@, payload)] ELSE jobs
    /\ ag' = [ag EXCEPT ![a] =
                IF upd.raised
                THEN [@ EXCEPT !.pc = "idle", !.exit = "exception", !.run = 0,
                               !.log = @ \o pre \o <<UpdateEvent("update_job", payload, upd)>>]
                ELSE [@ EXCEPT !.pc = nextpc,
                               !.log = @ \o pre \o <<UpdateEvent("update_job", payload, upd)>>
                                         \o post]]

\* One update_job call of run_job and what follows it: an exception leaves
\* run_job and main (main does not catch around run_job), otherwise the
\* events in `post` happen and the invocation continues at `nextpc`.
JobUpdate(a, j, payload, upd, pre, post, nextpc) ==
    /\ jobs' = IF upd.applied THEN [jobs EXCEPT ![j] = ApplyPayload(@, payload)] ELSE jobs
    /\ ag' = [ag EXCEPT ![a] =
                IF upd.raised
                THEN [@ EXCEPT !.pc = "idle", !.exit = "exception", !.run = 0,
                               !.log = @ \o pre \o <<UpdateEvent("update_job", payload, upd)>>]
                ELSE [@ EXCEPT !.pc = nextpc,
                               !.log = @ \o pre \o <<UpdateEvent("update_job", payload, upd)>>
                                         \o post]]

\* Mutant of RunningPayload: the log paths are recorded when the job starts.
RunningPayloadWithPaths ==
    [status |-> "running", started_at |-> Stamp,
     stdout_path |-> Some("stdout.log"), stderr_path |-> Some("stderr.log")]

\* The payload of the update of lines 374-379.
RunningPayload == [status |-> "running", started_at |-> Stamp]

\* run_job, lines 305-379: look the script up, validate it, mark the job running.
\* Every job record carries a non-null identifier, so the test of line 319
\* is true whenever it is reached.
RunJobResolve(a) ==
    /\ ag[a].pc = "resolve"
    /\ \E sf \in Flags, uf \in Flags :
         LET j == ag[a].job
             job == jobs[j].tmpl
             use_job_id == "job_id" \in IdColumns(schema, "job_id")
             upd == update_job(use_job_id, IdColumns(schema, "job_id"), uf)
             script_id == job.script_id
             script_row == IF script_id /= None
                           THEN fetch_script(script_id[1], ME, scripts,
                                             IdColumns(schema, "script_id"), sf)
                           ELSE None
             row_path == IF script_row /= None THEN ScriptRow(script_row[1]).path
                         ELSE EmptyPath
             script_path == IF row_path /= EmptyPath THEN row_path ELSE job.script_path
             script_type == IF script_row /= None /\ ScriptRow(script_row[1]).type /= ""
                            THEN ScriptRow(script_row[1]).type
                            ELSE LStripDot(PathSuffix(script_path.parts))
             verdict == ensure_allowed_script(script_path, script_type)
             looked == IF script_id = None THEN <<>>
                       ELSE <<Ev("fetch_script",
                                 IF script_row = None THEN "none" ELSE "found",
                                 None, "", <<>>, {})>>
         IN  IF script_id /= None /\ script_row = None
             THEN /\ logs' = [logs EXCEPT ![j].err = Some(<<"script not found">>)]
                  /\ JobUpdate(a, j,
                        [status |-> "error", finished_at |-> Stamp,
                         stderr_path |-> Some("stderr.log"),
                         stdout_path |-> Some("stdout.log"),
                         stderr_tail |-> Some(<<"script not found">>)],
                        upd, looked,
                        <<send_email("error", None, "script not found")>>, "sess")
             ELSE IF script_path = EmptyPath
             THEN /\ logs' = [logs EXCEPT ![j].err = Some(<<"script_path is empty">>)]
                  /\ JobUpdate(a, j,
                        [status |-> "error", finished_at |-> Stamp,
                         stderr_path |-> Some("stderr.log"),
                         stdout_path |-> Some("stdout.log"),
                         stderr_tail |-> Some(<<"script_path missing">>)],
                        upd, looked,
                        <<send_email("error", None, "script_path missing")>>, "sess")
             ELSE IF ~verdict.ok
             THEN /\ logs' = logs
                  /\ JobUpdate(a, j,
                        [status |-> "error", finished_at |-> Stamp,
                         stdout_path |-> Some("stdout.log"),
                         stderr_path |-> Some("stderr.log"),
                         retcode |-> None,
                         stderr_tail |-> Some(<<verdict.reason>>)],
                        upd,
                        looked \o
                        <<Ev("ensure_allowed_script", "rejected", None, verdict.reason,
                             <<>>, {})>>,
                        <<send_email("error", None, verdict.reason)>>, "sess")
             ELSE /\ logs' = logs
                  /\ JobUpdate(a, j,
                        RunningPayload,
                        upd,
                        looked \o
                        <<Ev("ensure_allowed_script", "accepted", None, "",
                             verdict.path, {})>>,
                        <<>>, "exec")
    /\ UNCHANGED <<schema, scripts, sessions, runs, probe>>

\* Mutant of FinalStatus: a job whose child failed is put back in the queue.
FinalStatusRetry(retcode) == IF retcode = Some(0) THEN "done" ELSE "pending"

\* Mutant of FinalStatus: "done" for any falsy retcode (`not retcode`).
FinalStatusFalsy(retcode) == IF retcode \in {None, Some(0)} THEN "done" ELSE "error"

\* line 411
FinalStatus(retcode) == IF retcode = Some(0) THEN "done" ELSE "error"

\* The events of one kind in an invocation's log, in order.
Events(log, op) == SelectSeq(log, LAMBDA e : e.op = op)

\* script_full of the running invocation: the path the resolver returned.
ScriptFull(a) == Events(ag[a].log, "ensure_allowed_script")[1].att

\* run_job, lines 381-422: build the command, run the child to its end,
\* write the result back and notify.
RunJobExec(a) ==
    /\ ag[a].pc = "exec"
    /\ \E child \in ChildRuns \cup {[rc |-> 0, out |-> <<>>, err |-> <<"launch">>]},
          uf \in Flags :
         LET j == ag[a].job
             job == jobs[j].tmpl
             use_job_id == "job_id" \in IdColumns(schema, "job_id")
             upd == update_job(use_job_id, IdColumns(schema, "job_id"), uf)
             args == format_args(job.args)
             script_full == ScriptFull(a)
             is_py == PathSuffix(script_full) = ".py"
             cmd == IF is_py THEN PythonCommand(script_full, args)
                    ELSE build_nbconvert_command(script_full)
             warned == ~is_py /\ args /= <<>>
             \* line 389: open("a") and append the warning
             err_warned == IF warned
                           THEN Some((IF logs[j].err = NoFile THEN <<>> ELSE logs[j].err[1])
                                     \o <<WARN_ARGS>>)
                           ELSE logs[j].err
             \* line 395: both logs are opened with "w" and so start empty
             started == child \in ChildRuns
             out_final == Some(IF started THEN child.out ELSE <<>>)
             err_final == Some(IF started THEN child.err ELSE <<FAILED_START>>)
             retcode == IF started THEN Some(child.rc) ELSE None
             status == FinalStatus(retcode)
             payload == [status |-> status, finished_at |-> Stamp, retcode |-> retcode,
                         stdout_path |-> Some("stdout.log"),
                         stderr_path |-> Some("stderr.log"),
                         stdout_tail |-> get_tail(out_final),
                         stderr_tail |-> get_tail(err_final)]
         IN  /\ logs' = [logs EXCEPT ![j] = [out |-> out_final, err |-> err_final]]
             /\ JobUpdate(a, j, payload, upd,
                   (IF warned THEN <<Ev("warn", "", None, WARN_ARGS, err_warned, {})>>
                    ELSE <<>>)
                   \o <<Ev("Popen", IF started THEN "started" ELSE "failed", retcode, "",
                           cmd, {})>>,
                   <<send_email(status, retcode, "")>>, "sess")
    /\ UNCHANGED <<schema, scripts, sessions, runs, probe>>

(***************************************************************************)
(* handle_jupyter_sessions                                                 *)
(***************************************************************************)
\* Mutant of SessionPort: the offset taken modulo 10.
SessionPortMod10(port_base, uid) == port_base + (uid % 10)

\* line 485
SessionPort(port_base, uid) == port_base + (uid % 100)

\* Mutant of AllocatePort: the first port from the computed one on that no
\* running session of the table is recorded with.
AllocateFreePort(table, port_base, uid) ==
    LET used == { table[s].port[1] : s \in { k \in DOMAIN table : table[k].status = "running" } }
        from == SessionPort(port_base, uid)
    IN  CHOOSE p \in from..(from + Cardinality(used)) :
            p \notin used /\ \A q \in from..(p - 1) : q \in used

\* handle_jupyter_sessions, lines 484-485: the port of a session is computed
\* from the base port and the user identity; the sessions table is not
\* consulted.
AllocatePort(table, port_base, uid) == SessionPort(port_base, uid)

\* secrets.token_hex(16) and the pid of a new child: fresh per invocation.
Token(run) == <<"token", run>>
Pid(run) == <<"pid", run>>

\* One update_session call.  main() catches whatever
\* handle_jupyter_sessions raises, logs it and returns 0.
SessionUpdate(a, s, payload, upd, before, nextpc) ==
    /\ sessions' = IF upd.applied THEN [sessions EXCEPT ![s] = ApplyPayload(@, payload)]
                   ELSE sessions
    /\ ag' = [ag EXCEPT ![a] =
                [@ EXCEPT !.pc = IF upd.raised THEN "idle" ELSE nextpc,
                          !.exit = IF upd.raised \/ nextpc = "idle" THEN "0" ELSE @,
                          !.run = IF upd.raised \/ nextpc = "idle" THEN 0 ELSE @,
                          !.log = before
                                  \o <<UpdateEvent("update_session", payload, upd)>>]]

\* handle_jupyter_sessions, lines 479-481: fetch the pending session.
\* The log of the job stage ends here; the session stage starts its own.
HandleSessions(a) ==
    /\ ag[a].pc = "sess"
    /\ \E failed \in BOOLEAN :
         LET s == fetch_pending_session(sessions, ME)
         IN  ag' = [ag EXCEPT ![a] =
                  IF failed \/ s = 0
                  THEN [@ EXCEPT !.pc = "idle", !.exit = "0", !.log = <<>>,
                                 !.job = 0, !.run = 0,
                                 !.stages = Append(@, "sessions")]
                  ELSE [@ EXCEPT !.pc = "starting", !.sess = s, !.log = <<>>,
                                 !.job = 0,
                                 !.stages = Append(@, "sessions")]]
    /\ UNCHANGED <<schema, jobs, scripts, sessions, logs, runs, probe>>

\* handle_jupyter_sessions, lines 482-494: allocate port and token, mark starting.
MarkStarting(a) ==
    /\ ag[a].pc = "starting"
    /\ \E uf \in Flags :
         LET use_session_id == "session_id" \in IdColumns(schema, "session_id")
             upd == update_session(use_session_id, IdColumns(schema, "session_id"), uf)
         IN  SessionUpdate(a, ag[a].sess, [status |-> "starting", updated_at |-> Stamp],
                           upd, <<>>, "launch")
    /\ UNCHANGED <<schema, jobs, scripts, logs, runs, probe>>

\* Mutant of SessionOutcome: a session whose spawn failed is put back in
\* the queue.
SessionOutcomeRetry(spawned, port, token, pid, message) ==
    IF spawned
    THEN [status |-> "running", port |-> Some(port), token |-> Some(token),
          pid |-> Some(pid), updated_at |-> Stamp]
    ELSE [status |-> "pending", error_message |-> Some(message), updated_at |-> Stamp]

\* Mutant of SessionOutcome: running is recorded whether or not the spawn
\* call succeeded.
SessionOutcomeAlwaysRunning(spawned, port, token, pid, message) ==
    [status |-> "running", port |-> Some(port), token |-> Some(token),
     pid |-> Some(pid), updated_at |-> Stamp]

\* The update after launch_jupyter returned (lines 512-523) or raised
\* (lines 498-510).
SessionOutcome(spawned, port, token, pid, message) ==
    IF spawned
    THEN [status |-> "running", port |-> Some(port), token |-> Some(token),
          pid |-> Some(pid), updated_at |-> Stamp]
    ELSE [status |-> "error", error_message |-> Some(message), updated_at |-> Stamp]

\* handle_jupyter_sessions, lines 496-524: launch and record the outcome.
LaunchSession(a) ==
    /\ ag[a].pc = "launch"
    /\ \E spawned \in BOOLEAN, uf \in Flags :
         LET use_session_id == "session_id" \in IdColumns(schema, "session_id")
             upd == update_session(use_session_id, IdColumns(schema, "session_id"), uf)
             port == AllocatePort(sessions, DEFAULT_JUPYTER_BASE_PORT, HostUid)
             token == Token(ag[a].run)
             launch == Ev("launch_jupyter", IF spawned THEN "started" ELSE "failed",
                          None, "", <<port, token>>, {})
         IN  SessionUpdate(a, ag[a].sess,
                           SessionOutcome(spawned, port, token, Pid(ag[a].run),
                                          "spawn failed"),
                           upd, Append(ag[a].log, launch), "idle")
    /\ UNCHANGED <<schema, jobs, scripts, logs, runs, probe>>

(***************************************************************************)
(* The resolver on its own: every script path and declared type.           *)
(***************************************************************************)
RECURSIVE SeqsUpTo(_, _)
SeqsUpTo(S, n) ==
    IF n = 0 THEN { <<>> }
    ELSE LET shorter == SeqsUpTo(S, n - 1)
         IN  shorter \cup { Append(q, x) : q \in shorter, x \in S }

ProbePaths == { MkPath(abs, parts) : abs \in BOOLEAN, parts \in SeqsUpTo(Names, MaxPathLen) }
ProbeTypes == {"", "py", "ipynb", "txt"}

InitProbe ==
    /\ schema = "id"
    /\ jobs = [j \in JobIds |-> AbsentJob]
    /\ scripts = {}
    /\ sessions = [s \in SessIds |-> AbsentSession]
    /\ logs = [j \in JobIds |-> NoLogs]
    /\ runs = 0
    /\ ag = [a \in Agents |-> IdleAgent]
    /\ \E p \in ProbePaths, t \in ProbeTypes :
         probe = [path |-> p, type |-> t, done |-> FALSE, result |-> Reject("")]

CallResolver ==
    /\ ~probe.done
    /\ probe' = [probe EXCEPT !.done = TRUE,
                              !.result = ensure_allowed_script(probe.path, probe.type)]
    /\ UNCHANGED <<schema, jobs, scripts, sessions, logs, runs, ag>>

(***************************************************************************)
(* format_args on its own: every args payload of up to MaxArgs entries.    *)
(***************************************************************************)
Scalars == { SStr("x"), SInt("1"), STrue, SFalse, SNull }
ArgKeys == {"a", "b"}

\* The keys of a mapping are distinct; its pairs are in insertion order.
DistinctKeys(pairs) ==
    \A i \in 1..Len(pairs), k \in 1..Len(pairs) : i /= k => pairs[i][1] /= pairs[k][1]

ArgsInputs ==
    {ArgsNone}
    \cup { ArgsList(q) : q \in SeqsUpTo(Scalars, MaxArgs) }
    \cup { ArgsDict(p) : p \in { q \in SeqsUpTo(ArgKeys \X Scalars, MaxArgs) :
                                   DistinctKeys(q) } }
    \cup { ArgsStr(c) : c \in SeqsUpTo({"x", " "}, MaxArgs + 1) }
    \cup { ArgsScalar(x) : x \in Scalars \ {SNull, SStr("x")} }

InitArgs ==
    /\ schema = "id"
    /\ jobs = [j \in JobIds |-> AbsentJob]
    /\ scripts = {}
    /\ sessions = [s \in SessIds |-> AbsentSession]
    /\ logs = [j \in JobIds |-> NoLogs]
    /\ runs = 0
    /\ ag = [a \in Agents |-> IdleAgent]
    /\ \E raw \in ArgsInputs : probe = [args |-> raw, done |-> FALSE, result |-> <<>>]

CallFormatArgs ==
    /\ ~probe.done
    /\ probe' = [probe EXCEPT !.done = TRUE, !.result = format_args(probe.args)]
    /\ UNCHANGED <<schema, jobs, scripts, sessions, logs, runs, ag>>

(***************************************************************************)
(* The port formula on its own: two user identities and a base port.       *)
(***************************************************************************)
BasePorts == {DEFAULT_JUPYTER_BASE_PORT, DEFAULT_JUPYTER_BASE_PORT + 100}

InitPort ==
    /\ schema = "id"
    /\ jobs = [j \in JobIds |-> AbsentJob]
    /\ scripts = {}
    /\ sessions = [s \in SessIds |-> AbsentSession]
    /\ logs = [j \in JobIds |-> NoLogs]
    /\ runs = 0
    /\ ag = [a \in Agents |-> IdleAgent]
    /\ \E b \in BasePorts, u1 \in 0..MaxUid, u2 \in 0..MaxUid :
         probe = [base |-> b, uid1 |-> u1, uid2 |-> u2, done |-> FALSE,
                  port1 |-> 0, port2 |-> 0]

CallSessionPort ==
    /\ ~probe.done
    /\ probe' = [probe EXCEPT !.done = TRUE,
                              !.port1 = SessionPort(probe.base, probe.uid1),
                              !.port2 = SessionPort(probe.base, probe.uid2)]
    /\ UNCHANGED <<schema, jobs, scripts, sessions, logs, runs, ag>>

(***************************************************************************)
(* Specifications.                                                         *)
(***************************************************************************)
Next ==
    \/ \E j \in JobIds, t \in JobTemplates : Enqueue(j, t)
    \/ \E s \in SessIds, owner \in {ME, OTHER_USER} : EnqueueSession(s, owner)
    \/ \E a \in Agents : Start(a)
    \/ \E a \in Agents : Sync(a)
    \/ \E a \in Agents : FetchJob(a)
    \/ \E a \in Agents : RunJobResolve(a)
    \/ \E a \in Agents : RunJobExec(a)
    \/ \E a \in Agents : HandleSessions(a)
    \/ \E a \in Agents : MarkStarting(a)
    \/ \E a \in Agents : LaunchSession(a)

\* Two agents, started by the scheduler at any time, possibly overlapping.
Spec == Init /\ [][Next]_vars

\* The job side: as Spec, with no session request ever enqueued.
NextJobs ==
    \/ \E j \in JobIds, t \in JobTemplates : Enqueue(j, t)
    \/ \E a \in Agents : Start(a)
    \/ \E a \in Agents : Sync(a)
    \/ \E a \in Agents : FetchJob(a)
    \/ \E a \in Agents : RunJobResolve(a)
    \/ \E a \in Agents : RunJobExec(a)
    \/ \E a \in Agents : HandleSessions(a)

SpecJobs == Init /\ [][NextJobs]_vars

\* The job side with invocations that never overlap: one agent, started
\* again only after it has returned.
NextSeq ==
    \/ \E j \in JobIds, t \in JobTemplates : Enqueue(j, t)
    \/ Start("a1")
    \/ Sync("a1")
    \/ FetchJob("a1")
    \/ RunJobResolve("a1")
    \/ RunJobExec("a1")
    \/ HandleSessions("a1")

SpecSeq == Init /\ [][NextSeq]_vars

\* The race for one job: as SpecJobs, with a single job ever enqueued.
NextRace ==
    \/ \E t \in JobTemplates : Enqueue(1, t)
    \/ \E a \in Agents : Start(a)
    \/ \E a \in Agents : Sync(a)
    \/ \E a \in Agents : FetchJob(a)
    \/ \E a \in Agents : RunJobResolve(a)
    \/ \E a \in Agents : RunJobExec(a)
    \/ \E a \in Agents : HandleSessions(a)

SpecRace == Init /\ [][NextRace]_vars

\* The session side: as Spec, with no job ever enqueued.
NextSessions ==
    \/ \E s \in SessIds, owner \in {ME, OTHER_USER} : EnqueueSession(s, owner)
    \/ \E a \in Agents : Start(a)
    \/ \E a \in Agents : Sync(a)
    \/ \E a \in Agents : FetchJob(a)
    \/ \E a \in Agents : HandleSessions(a)
    \/ \E a \in Agents : MarkStarting(a)
    \/ \E a \in Agents : LaunchSession(a)

SpecSessions == Init /\ [][NextSessions]_vars

(***************************************************************************)
(* The agent invoked again and again, with no failing queue call.  The     *)
(* scheduler starts main() whenever the previous invocation of that agent  *)
(* has returned, and an invocation that has started runs to its end: weak  *)
(* fairness of each agent's steps.  The token of a session is not renewed  *)
(* from one invocation to the next here.                                   *)
(***************************************************************************)
\* main(), lines 527-545, every time with a loadable configuration.
LiveStart(a) ==
    /\ ag[a].pc = "idle"
    /\ ag' = [ag EXCEPT ![a] = [IdleAgent EXCEPT !.pc = "sync", !.run = 1,
                                                 !.stages = <<"boot">>]]
    /\ UNCHANGED <<schema, jobs, scripts, sessions, logs, runs, probe>>

\* The step of agent a made no failing queue call: the inventory sync went
\* through, no fetch failed, no update raised, and a script or session that
\* is in the queue was found.
NoQueueFailure(a) ==
    /\ scripts' = scripts
    /\ ag'[a].exit \notin {"1", "exception"}
    /\ \A e \in Range(ag'[a].log) :
          /\ e.op \in {"update_job", "update_session"} => e.msg = "applied"
          /\ (e.op = "fetch_script" /\ e.st = "none") =>
                LET id == jobs[ag[a].job].tmpl.script_id[1]
                IN  id \notin scripts \/ ScriptRow(id).user /= ME
    /\ (ag[a].pc = "sess" /\ ag'[a].pc = "idle") =>
          fetch_pending_session(sessions, ME) = 0

LiveJobStep(a) ==
    /\ \/ LiveStart(a)
       \/ Sync(a)
       \/ FetchJob(a)
       \/ RunJobResolve(a)
       \/ RunJobExec(a)
       \/ HandleSessions(a)
    /\ NoQueueFailure(a)

NextLiveJobs ==
    \/ \E j \in JobIds, t \in JobTemplates : Enqueue(j, t)
    \/ LiveJobStep("a1")

\* One agent, invoked without overlap, jobs only.
SpecLiveJobs == Init /\ [][NextLiveJobs]_vars /\ WF_vars(LiveJobStep("a1"))

LiveSessionStep(a) ==
    /\ \/ LiveStart(a)
       \/ Sync(a)
       \/ FetchJob(a)
       \/ HandleSessions(a)
       \/ MarkStarting(a)
       \/ LaunchSession(a)
    /\ NoQueueFailure(a)

NextLiveSessions ==
    \/ \E s \in SessIds, owner \in {ME, OTHER_USER} : EnqueueSession(s, owner)
    \/ \E a \in Agents : LiveSessionStep(a)

\* Two agents, possibly overlapping, sessions only.
SpecLiveSessions ==
    Init /\ [][NextLiveSessions]_vars /\ \A a \in Agents : WF_vars(LiveSessionStep(a))

\* The resolver applied to one arbitrary input.
SpecProbe == InitProbe /\ [][CallResolver]_vars

\* format_args applied to one arbitrary payload.
SpecArgs == InitArgs /\ [][CallFormatArgs]_vars

\* The port formula applied to two arbitrary user identities.
SpecPort == InitPort /\ [][CallSessionPort]_vars

(***************************************************************************)
(* Properties.                                                             *)
(***************************************************************************)

\* run_job has returned to main / has been left by an exception.
RunJobReturned(a) == ag[a].pc = "sess" /\ ag[a].job /= 0
RunJobRaised(a) == ag[a].pc = "idle" /\ ag[a].exit = "exception"
RunJobOver(a) == RunJobReturned(a) \/ RunJobRaised(a)
InJobStage(a) == ag[a].pc \in {"resolve", "exec"}

\* C1: once a job's status is done or error, no step of any invocation
\* changes that job's record again, also when two overlapping invocations
\* fetched the job while it was pending.
C1_TerminalJobsUntouched ==
    [][\A j \in JobIds :
         jobs[j].status \in {"done", "error"} => jobs'[j] = jobs[j]]_vars

\* C2: an invocation that got past configuration, client creation and user
\* resolution always reaches the session stage before it ends, whatever
\* failed in the sync stage, the job fetch or run_job.
C2_StagesIsolated ==
    \A a \in Agents :
        (ag[a].pc = "idle" /\ ag[a].stages /= <<>>) => Last(ag[a].stages) = "sessions"

\* C3: when run_job is over for a dequeued job, send_email has been called
\* exactly once, with the status of the last update_job issued for the job.
C3_NotifiedOnce ==
    \A a \in Agents :
        RunJobOver(a) =>
            LET mails == Events(ag[a].log, "send_email")
                ups == Events(ag[a].log, "update_job")
            IN  /\ Len(mails) = 1
                /\ ups /= <<>>
                /\ mails[1].st = Last(ups).st

\* C4: a job with a script reference for which fetch_script found no row
\* ends in status error, the resolver and the process runner are never
\* reached, the job is never set to running, and the notifier gets
\* error_message "script not found".
C4_ScriptNotFound ==
    \A a \in Agents :
        (/\ RunJobOver(a)
         /\ \E e \in Range(ag[a].log) : e.op = "fetch_script" /\ e.st = "none")
        => /\ jobs[ag[a].job].status = "error"
           /\ Events(ag[a].log, "ensure_allowed_script") = <<>>
           /\ Events(ag[a].log, "Popen") = <<>>
           /\ \A e \in Range(ag[a].log) : e.op = "update_job" => e.st /= "running"
           /\ \E e \in Range(ag[a].log) :
                e.op = "send_email" /\ e.msg = "script not found"

\* C5: the final update of a validated job writes status done exactly when
\* the child exited with code 0; a non-zero exit writes error with that exit
\* code as retcode; a child that could not be started writes error with a
\* null retcode.
C5_Step ==
    \A a \in Agents :
        (ag[a].pc = "exec" /\ ag'[a].pc /= "exec") =>
            LET child == Events(ag'[a].log, "Popen")[1]
                upd == Last(Events(ag'[a].log, "update_job"))
                rec == jobs'[ag[a].job]
            IN  upd.msg = "applied" =>
                  /\ (rec.status = "done") = (child.st = "started" /\ child.rc = Some(0))
                  /\ (child.st = "started" /\ child.rc /= Some(0))
                       => (rec.status = "error" /\ rec.retcode = child.rc)
                  /\ child.st = "failed" => (rec.status = "error" /\ rec.retcode = None)

C5_FinalStatus == [][C5_Step]_vars

\* C5 witness: a child that could not be started, recorded as error with no retcode.
C5_Witness ==
    \E a \in Agents :
        /\ RunJobReturned(a)
        /\ \E e \in Range(ag[a].log) : e.op = "Popen" /\ e.st = "failed"
        /\ jobs[ag[a].job].status = "error"
        /\ jobs[ag[a].job].retcode = None

MyPending(j) == jobs[j].status = "pending" /\ jobs[j].tmpl.owner = ME

\* C6: an invocation dequeues at most one job, the current user's pending
\* job with the earliest created_at; no other job record is changed by it
\* (none at all when nothing was pending), and jobs leave pending in
\* creation order.
C6_Step ==
    /\ \A a \in Agents :
          (ag[a].pc = "fetch" /\ ag'[a].pc = "resolve") =>
              /\ MyPending(ag'[a].job)
              /\ \A k \in JobIds :
                    MyPending(k) => jobs[ag'[a].job].created <= jobs[k].created
    /\ \A a \in Agents :
          ag'[a].job /= ag[a].job =>
              \/ ag[a].pc = "fetch" /\ ag[a].job = 0
              \/ ag'[a].job = 0
    /\ \A j \in JobIds :
          (jobs[j].status /= "absent" /\ jobs'[j] /= jobs[j]) =>
              \E a \in Agents : InJobStage(a) /\ ag[a].job = j /\ ag'[a] /= ag[a]
    /\ \A j \in JobIds :
          (jobs[j].status = "pending" /\ jobs'[j].status /= "pending") =>
              /\ jobs[j].tmpl.owner = ME
              /\ \A k \in JobIds : MyPending(k) => jobs[j].created <= jobs[k].created

C6_OldestFirst == [][C6_Step]_vars

\* C6 witness: the older of two pending jobs of this user was dequeued and
\* has left pending while the younger one still waits.
C6_Witness ==
    \E a \in Agents, k \in JobIds :
        /\ RunJobReturned(a)
        /\ jobs[ag[a].job].status \in {"done", "error"}
        /\ MyPending(k)
        /\ jobs[k].created > jobs[ag[a].job].created

\* C7: a notebook job with non-empty args is executed without the args in
\* its command, and once it has finished its stderr log holds the
\* ignored-args warning line.
C7_NotebookArgsWarning ==
    \A a \in Agents :
        (/\ RunJobReturned(a)
         /\ \E e \in Range(ag[a].log) : e.op = "Popen" /\ e.st = "started"
         /\ PathSuffix(ScriptFull(a)) = ".ipynb"
         /\ format_args(jobs[ag[a].job].tmpl.args) /= <<>>)
        => /\ Events(ag[a].log, "Popen")[1].att.args = <<>>
           /\ logs[ag[a].job].err /= NoFile
           /\ WARN_ARGS \in Range(logs[ag[a].job].err[1])

\* C8: ensure_allowed_script rejects an absolute path, a path whose
\* canonical resolution leaves HOME, an extension outside the allowed set, a
\* declared type that differs from the extension, a file that does not
\* exist and a path with a skipped component, in that order of precedence,
\* and returns the resolved path in every other case.
C8_Resolver ==
    probe.done =>
        LET p == probe.path
            resolved == Resolve(HOME, p.parts)
            ext == PathSuffix(resolved)
            absolute == p.abs
            outside == ~IsPrefix(HOME, resolved)
            bad_ext == ext \notin {".py", ".ipynb"}
            mismatch == probe.type /= "" /\ probe.type /= LStripDot(ext)
            missing == resolved \notin Files /\ resolved \notin Dirs
            skipped == Range(resolved) \cap SKIP_DIRS /= {}
            expected ==
                CASE absolute -> R_ABS
                  [] ~absolute /\ outside -> R_HOME
                  [] ~absolute /\ ~outside /\ bad_ext -> R_SUFFIX
                  [] ~absolute /\ ~outside /\ ~bad_ext /\ mismatch -> R_TYPE
                  [] ~absolute /\ ~outside /\ ~bad_ext /\ ~mismatch /\ missing -> R_MISSING
                  [] ~absolute /\ ~outside /\ ~bad_ext /\ ~mismatch /\ ~missing /\ skipped
                       -> R_SKIP
                  [] OTHER -> ""
        IN  /\ probe.result.ok
              = ~(absolute \/ outside \/ bad_ext \/ mismatch \/ missing \/ skipped)
            /\ probe.result.ok => probe.result.path = resolved
            /\ probe.result.reason = expected

\* C8 witness: a path that passes the first five checks and is rejected by
\* the last one.
C8_Witness ==
    /\ probe.done
    /\ ~probe.result.ok
    /\ probe.result.reason = R_SKIP
    /\ Exists(Resolve(HOME, probe.path.parts))

\* C9: every update_job call tries the preferred identifier column first
\* (job_id when the fetched record has a job_id field, else id), tries the
\* other column only after the first attempt failed, and raises exactly when
\* both failed; a call that does not raise has applied its payload to the
\* job's record, and a call that raises ends run_job with the exception.
C9_Step ==
    \A a \in Agents :
        (InJobStage(a) /\ ag'[a] /= ag[a]) =>
            LET upd == Last(Events(ag'[a].log, "update_job"))
                has_job_id == schema \in {"named", "both"}
                has_id == schema \in {"id", "both"}
                preferred == IF has_job_id THEN "job_id" ELSE "id"
                alternate == IF has_job_id THEN "id" ELSE "job_id"
                exposed(col) == IF col = "id" THEN has_id ELSE has_job_id
                rec == jobs'[ag[a].job]
            IN  /\ upd.att[1].col = preferred
                /\ upd.att[1].ok => Len(upd.att) = 1
                /\ ~upd.att[1].ok => (Len(upd.att) = 2 /\ upd.att[2].col = alternate)
                /\ \A i \in 1..Len(upd.att) : upd.att[i].ok => exposed(upd.att[i].col)
                /\ (upd.msg = "raised") = (\A i \in 1..Len(upd.att) : ~upd.att[i].ok)
                /\ upd.msg = "raised" =>
                      (ag'[a].pc = "idle" /\ ag'[a].exit = "exception" /\ jobs' = jobs)
                /\ upd.msg /= "raised" =>
                      /\ rec.status = upd.st
                      /\ "retcode" \in upd.keys => rec.retcode = upd.rc
                      /\ ag'[a].exit = ""

C9_UpdateJob == [][C9_Step]_vars

\* C9 witness: an update whose first attempt failed and whose second
\* attempt, on the alternate column, was applied to the record.
C9_Witness ==
    \E a \in Agents :
        /\ RunJobReturned(a)
        /\ LET upd == Last(Events(ag[a].log, "update_job"))
           IN  /\ Len(upd.att) = 2
               /\ upd.att[2].ok
               /\ upd.att[2].col = "id"
               /\ jobs[ag[a].job].status = upd.st

InSessionStage(a) ==
    \/ ag[a].pc \in {"starting", "launch"}
    \/ ag[a].pc = "idle" /\ ag[a].exit = "0" /\ ag[a].sess /= 0

\* C10: the session controller writes starting to a session it fetched as
\* pending, before the launch attempt; after the attempt it writes running
\* if the spawn call succeeded and error if it raised; port, token and pid
\* are in the running update only, error_message in the error update only.
C10_Step ==
    /\ \A a \in Agents :
          (ag[a].pc = "sess" /\ ag'[a].pc = "starting") =>
              sessions[ag'[a].sess].status = "pending"
    /\ \A a \in Agents :
          (ag'[a].pc \in {"starting", "launch"}
           \/ (ag'[a].pc = "idle" /\ ag'[a].exit = "0" /\ ag'[a].sess /= 0)) =>
              LET L == ag'[a].log
                  first == L[1]
                  launch == L[2]
                  second == L[3]
              IN  /\ Len(L) \in {0, 1, 3}
                  /\ Len(L) = 0 => ag'[a].pc = "starting"
                  /\ Len(L) >= 1 =>
                        /\ first.op = "update_session"
                        /\ first.st = "starting"
                        /\ first.keys = {"status", "updated_at"}
                        /\ (ag'[a].pc = "launch") = (Len(L) = 1 /\ first.msg = "applied")
                  /\ Len(L) = 3 =>
                        /\ first.msg = "applied"
                        /\ launch.op = "launch_jupyter"
                        /\ second.op = "update_session"
                        /\ (second.st = "running") = (launch.st = "started")
                        /\ (second.st = "error") = (launch.st = "failed")
                        /\ second.st = "running" =>
                              second.keys = {"status", "port", "token", "pid", "updated_at"}
                        /\ second.st = "error" =>
                              second.keys = {"status", "error_message", "updated_at"}
    /\ \A s \in SessIds :
          (sessions[s].status /= "absent" /\ sessions'[s] /= sessions[s]) =>
              \E a \in Agents :
                  /\ ag[a].sess = s
                  /\ ag[a].pc \in {"starting", "launch"}
                  /\ ag'[a] /= ag[a]
                  /\ LET upd == Last(ag'[a].log)
                     IN  /\ upd.msg = "applied"
                         /\ sessions'[s].status = upd.st
                         /\ \A f \in DOMAIN sessions[s] \ upd.keys :
                               sessions'[s][f] = sessions[s][f]

C10_SessionWrites == [][C10_Step]_vars

\* C10 witness: a spawn that raised, recorded as error with a message and
\* without port, token or pid.
C10_Witness ==
    \E a \in Agents :
        /\ ag[a].pc = "idle" /\ ag[a].exit = "0" /\ ag[a].sess /= 0
        /\ Len(ag[a].log) = 3
        /\ ag[a].log[2].st = "failed"
        /\ ag[a].log[3].msg = "applied"
        /\ sessions[ag[a].sess].status = "error"
        /\ sessions[ag[a].sess].error_message /= None
        /\ sessions[ag[a].sess].port = None

\* C11: for a mapping payload format_args emits, per key in insertion
\* order, the flag --key followed by the text of the value, and the flag
\* alone when the value is a boolean or null; a sequence payload yields the
\* text of its elements in order.
RECURSIVE C11_Flags(_)
C11_Flags(pairs) ==
    IF pairs = <<>> THEN <<>>
    ELSE LET key == Head(pairs)[1]
             value == Head(pairs)[2]
         IN  (IF value.k \in {"bool", "null"}
              THEN <<"--" \o key>>
              ELSE <<"--" \o key, value.s>>)
             \o C11_Flags(Tail(pairs))

C11_FormatArgs ==
    ("args" \in DOMAIN probe /\ probe.done) =>
        /\ probe.args.tag = "dict" => probe.result = C11_Flags(probe.args.items)
        /\ probe.args.tag = "list" =>
              /\ Len(probe.result) = Len(probe.args.items)
              /\ \A i \in 1..Len(probe.result) : probe.result[i] = probe.args.items[i].s

\* C12: the session port is base_port + (uid mod 100): equal for equal
\* identities, always within base_port .. base_port + 99, and different for
\* two distinct identities that differ by less than 100.
C12_Port ==
    ("uid1" \in DOMAIN probe /\ probe.done) =>
        LET diff == IF probe.uid1 >= probe.uid2 THEN probe.uid1 - probe.uid2
                    ELSE probe.uid2 - probe.uid1
        IN  /\ probe.port1 = probe.base + (probe.uid1 % 100)
            /\ probe.port1 \in probe.base .. (probe.base + 99)
            /\ probe.port2 \in probe.base .. (probe.base + 99)
            /\ probe.uid1 = probe.uid2 => probe.port1 = probe.port2
            /\ (diff > 0 /\ diff < 100) => probe.port1 /= probe.port2

\* C12 witness: two identities less than 100 apart on either side of a
\* multiple of 100, the larger one with the smaller port.
C12_Witness ==
    /\ "uid1" \in DOMAIN probe
    /\ probe.done
    /\ probe.uid1 < 100 /\ probe.uid2 >= 100 /\ probe.uid2 - probe.uid1 < 100
    /\ probe.port2 < probe.port1

\* The path run_job hands to the resolver for the job held by agent a, given
\* the invocation's log: the inventory row's path when the lookup found a
\* row, else the job's own script_path.
C13_ScriptPath(a, log) ==
    LET job == jobs[ag[a].job].tmpl
        found == \E e \in Range(log) : e.op = "fetch_script" /\ e.st = "found"
    IN  IF found THEN ScriptRow(job.script_id[1]).path ELSE job.script_path

\* The job held by agent a passes the script lookup, has a script path, and
\* that path names an existing .py or .ipynb file of the declared type under
\* HOME outside the skipped directories.
C13_Valid(a, log) ==
    LET p == C13_ScriptPath(a, log)
        resolved == Resolve(HOME, p.parts)
        found == \E e \in Range(log) : e.op = "fetch_script" /\ e.st = "found"
        declared == IF found THEN ScriptRow(jobs[ag[a].job].tmpl.script_id[1]).type
                    ELSE LStripDot(PathSuffix(p.parts))
    IN  /\ ~\E e \in Range(log) : e.op = "fetch_script" /\ e.st = "none"
        /\ declared \in {"", LStripDot(PathSuffix(resolved))}
        /\ p /= EmptyPath
        /\ ~p.abs
        /\ IsPrefix(HOME, resolved)
        /\ PathSuffix(resolved) \in {".py", ".ipynb"}
        /\ resolved \in Files
        /\ Range(resolved) \cap SKIP_DIRS = {}

\* C13: a child is spawned only after ensure_allowed_script accepted the
\* script path and after the update setting status running with started_at
\* was issued; a job whose script reference, script path or validation
\* failed is never set to running and never has a child spawned.
C13_Step ==
    \A a \in Agents :
        (InJobStage(a) /\ ag'[a] /= ag[a]) =>
            LET L == ag'[a].log
                j == ag[a].job
                spawns == { i \in 1..Len(L) : L[i].op = "Popen" }
            IN  /\ \A i \in spawns :
                      /\ \E k \in 1..(i - 1) :
                            /\ L[k].op = "ensure_allowed_script"
                            /\ L[k].st = "accepted"
                            /\ \E m \in (k + 1)..(i - 1) :
                                  /\ L[m].op = "update_job"
                                  /\ L[m].st = "running"
                                  /\ "started_at" \in L[m].keys
                      /\ C13_Valid(a, L)
                /\ ~C13_Valid(a, L) =>
                      /\ spawns = {}
                      /\ \A e \in Range(L) : e.op = "update_job" => e.st /= "running"
                      /\ jobs'[j].status /= "running"
                      /\ ag'[a].pc /= "exec"

C13_SpawnAfterValidation == [][C13_Step]_vars

\* C13 witness: a job whose path leaves HOME through a symbolic link was
\* rejected and recorded as error with no child spawned.
C13_Witness ==
    \E a \in Agents :
        /\ RunJobReturned(a)
        /\ \E e \in Range(ag[a].log) :
              e.op = "ensure_allowed_script" /\ e.st = "rejected" /\ e.msg = R_HOME
        /\ Events(ag[a].log, "Popen") = <<>>
        /\ jobs[ag[a].job].status = "error"

\* C14: when the resolver rejects a job's script, the job ends in error and
\* the rejection reason is in the job's stderr log file and in the
\* stderr_tail field of the job record.
C14_RejectionReason ==
    \A a \in Agents :
        (/\ RunJobReturned(a)
         /\ \E e \in Range(ag[a].log) :
               e.op = "ensure_allowed_script" /\ e.st = "rejected")
        => LET reason == Events(ag[a].log, "ensure_allowed_script")[1].msg
               j == ag[a].job
           IN  /\ jobs[j].status = "error"
               /\ jobs[j].stderr_tail = Some(<<reason>>)
               /\ logs[j].err /= NoFile
               /\ reason \in Range(logs[j].err[1])

\* C15: there is no claim step between fetch and spawn.  Fetching a job
\* changes no record; the running update is applied whatever the record's
\* status has become since the fetch; and the child is then spawned whatever
\* the record's status is.  Two overlapping invocations that fetched the
\* same pending job therefore both run it (C15_Witness).
C15_Step ==
    \A a \in Agents :
        LET j == ag[a].job
            L == ag'[a].log
        IN  /\ (ag[a].pc = "fetch" /\ ag'[a] /= ag[a]) => jobs' = jobs
            /\ (ag[a].pc = "resolve" /\ ag'[a] /= ag[a]
                /\ Last(L).op = "update_job" /\ Last(L).st = "running"
                /\ Last(L).msg = "applied")
               => (jobs'[j].status = "running" /\ ag'[a].pc = "exec")
            /\ (ag[a].pc = "exec" /\ ag'[a] /= ag[a])
               => Events(L, "Popen") /= <<>>

C15_NoClaimStep == [][C15_Step]_vars

\* C15 witness: both agents hold the same job and each has started a child
\* for it.
C15_Witness ==
    /\ RunJobReturned("a1") /\ RunJobReturned("a2")
    /\ ag["a1"].job = ag["a2"].job
    /\ \A a \in Agents :
          \E e \in Range(ag[a].log) : e.op = "Popen" /\ e.st = "started"

MyPendingSession(s) == sessions[s].status = "pending" /\ sessions[s].owner = ME

\* C16: an invocation takes at most one session, the current user's pending
\* session with the latest created_at; it leaves every other session record
\* unchanged; with no pending session it changes no record and launches
\* nothing.
C16_Step ==
    \A a \in Agents :
        /\ (ag[a].pc = "sess" /\ ag'[a].pc = "starting") =>
              /\ MyPendingSession(ag'[a].sess)
              /\ \A k \in SessIds :
                    MyPendingSession(k) =>
                        sessions[ag'[a].sess].created >= sessions[k].created
        /\ ag'[a].sess /= ag[a].sess =>
              \/ ag[a].pc = "sess" /\ ag[a].sess = 0
              \/ ag'[a].sess = 0
        /\ (ag[a].pc \in {"sess", "starting", "launch"} /\ ag'[a] /= ag[a]) =>
              \A s \in SessIds : s /= ag'[a].sess => sessions'[s] = sessions[s]
        /\ (ag[a].pc = "sess" /\ ag'[a] /= ag[a]
            /\ ~\E s \in SessIds : MyPendingSession(s)) =>
              /\ ag'[a].pc = "idle"
              /\ sessions' = sessions
              /\ ag'[a].log = <<>>

C16_NewestSession == [][C16_Step]_vars

\* C16 witness: of two pending sessions of this user the newer one was
\* taken and started while the older one is still pending.
C16_Witness ==
    \E a \in Agents, k \in SessIds :
        /\ ag[a].pc = "idle" /\ ag[a].sess /= 0
        /\ sessions[ag[a].sess].status = "running"
        /\ MyPendingSession(k)
        /\ sessions[k].created < sessions[ag[a].sess].created

ResultFields == {"retcode", "stdout_path", "stderr_path", "stdout_tail", "stderr_tail"}

\* C17: the update that marks a job running writes status and started_at
\* only; an update that writes a result field also sets status done or
\* error; so, with invocations that do not overlap, a job in status pending
\* or running has no result field set.
C17_Step ==
    \A a \in Agents :
        (InJobStage(a) /\ ag'[a] /= ag[a]) =>
            \A e \in Range(ag'[a].log) :
                e.op = "update_job" =>
                    /\ e.st = "running" => e.keys = {"status", "started_at"}
                    /\ e.keys \cap ResultFields /= {} => e.st \in {"done", "error"}

C17_ResultsOnlyAtEnd ==
    /\ [][C17_Step]_vars
    /\ [](\A j \in JobIds :
            jobs[j].status \in {"pending", "running"} =>
                \A f \in ResultFields : jobs[j][f] = None)

\* C17 witness: a job that was marked running and whose final update failed
\* stays running with no result field set, although its child has exited.
C17_Witness ==
    \E a \in Agents :
        /\ RunJobRaised(a)
        /\ ag[a].job /= 0
        /\ jobs[ag[a].job].status = "running"
        /\ jobs[ag[a].job].started_at /= None
        /\ Events(ag[a].log, "Popen") /= <<>>
        /\ \A f \in ResultFields : jobs[ag[a].job][f] = None

C20_PortReuse ==
    \A s \in SessIds, k \in SessIds :
        (s /= k /\ sessions[s].status = "running" /\ sessions[k].status = "running") =>
            /\ sessions[s].port = sessions[k].port
            /\ sessions[s].port = Some(DEFAULT_JUPYTER_BASE_PORT + (HostUid % 100))
            /\ sessions[s].token /= sessions[k].token
            /\ sessions[s].pid /= sessions[k].pid

\* C20 witness: two sessions running at once on one port.
C20_Witness ==
    \E s \in SessIds, k \in SessIds :
        /\ s /= k
        /\ sessions[s].status = "running" /\ sessions[k].status = "running"
        /\ sessions[s].port /= None
        /\ sessions[s].port = sessions[k].port

====
